---- MODULE Spec2Model ----
(***************************************************************************)
(* Model of the telemetry backend (src/backend/app.py): the telemetry      *)
(* table, db_lock, the request handlers of POST/GET /api/telemetry,        *)
(* GET /api/signals and GET /health, and the socket.io observers.          *)
(*                                                                         *)
(* Text is modelled as sequences of character codes so that SQLite's       *)
(* bytewise comparison of the TEXT columns (WHERE timestamp >= ?,          *)
(* ORDER BY timestamp, ORDER BY signal_name) is computed as SQLite         *)
(* computes it.  Every timestamp of the model lies on the same day and in  *)
(* the same minute, so the common prefix "YYYY-MM-DD" and the "HH:MM:" of  *)
(* a timestamp are left out: a timestamp is its separator, two digits of   *)
(* seconds and the optional fraction.  An instant is a number of half      *)
(* seconds; the six digits of the fraction are shortened to one.           *)
(***************************************************************************)
EXTENDS Integers, Sequences, FiniteSets, TLC

\* ------------------------------------------------------------------ bounds
MaxReq == 3        \* number of HTTP requests in one behaviour
MaxCalls == 2      \* the same, where the requests range over every payload
MaxObs == 1        \* number of socket.io observers
MaxInstant == 3    \* instants 0..MaxInstant may appear in posted timestamps
MaxHours == 2      \* GET /api/telemetry?hours= ranges over 0..MaxHours (half seconds)
MaxNow == 3        \* the clock runs from MaxHours to MaxNow
MaxWalk == 2       \* the random walk of the producer stays in -MaxWalk..MaxWalk

Requests == 1..MaxReq
Calls == 1..MaxCalls
Observers == 1..MaxObs
Instants == 0..MaxInstant
Free == 0          \* db_lock is not held

\* ------------------------------------------------------------------- text
SP == 32
DOT == 46
CT == 84
CZ == 90
Digit(d) == 48 + d

\* bytewise comparison of two texts (SQLite's BINARY collation, memcmp)
TextLess(s, t) ==
    LET n == IF Len(s) < Len(t) THEN Len(s) ELSE Len(t)
        diff == {i \in 1..n : s[i] # t[i]}
    IN  IF diff = {} THEN Len(s) < Len(t)
        ELSE LET i == CHOOSE j \in diff : \A k \in diff : j <= k
             IN  s[i] < t[i]

TextLeq(s, t) == s = t \/ TextLess(s, t)

\* the seconds and the fraction of an instant as datetime.isoformat() writes
\* them: two digits, and the fraction only when it is not zero
Clock(t) ==
    <<Digit((t \div 2) \div 10), Digit((t \div 2) % 10)>>
        \o (IF t % 2 = 0 THEN <<>> ELSE <<DOT, Digit(5)>>)

\* datetime.isoformat() of a naive UTC datetime: separator 'T'
isoformat(t) == <<CT>> \o Clock(t)

\* other texts a client may post as "timestamp"
ZuluFormat(t) == <<CT>> \o Clock(t) \o <<CZ>>     \* ISO-8601 with the UTC designator
SpaceFormat(t) == <<SP>> \o Clock(t)              \* date and time separated by a space
Garbage == <<120>>                                \* "x"
EmptyText == <<>>

\* ----------------------------------------------------------------- values
\* A JSON value of the "signals" mapping as request.get_json() returns it.
\* num is the number in tenths; txt the text of a string or the name of a
\* special float.
IntV(n) == [type |-> "int", num |-> 10 * n, txt |-> ""]
FloatV(tenths) == [type |-> "float", num |-> tenths, txt |-> ""]
InfV == [type |-> "float", num |-> 0, txt |-> "inf"]
NaNV == [type |-> "float", num |-> 0, txt |-> "nan"]
StrV(s) == [type |-> "str", num |-> 0, txt |-> s]
NullV == [type |-> "null", num |-> 0, txt |-> ""]

\* the number a text is the literal of, in tenths; -1 when it is not one
LiteralOf(s) == IF s = "5.5" THEN 55 ELSE -1

\* The value SQLite stores for a value bound to the column "value REAL NOT
\* NULL": integers become floating point, a text that is a well-formed
\* literal becomes that number, any other text stays text, NaN and None
\* become NULL.
RealAffinity(v) ==
    CASE v.type = "int" -> [type |-> "float", num |-> v.num, txt |-> ""]
      [] v.type = "float" /\ v.txt = "nan" -> NullV
      [] v.type = "float" -> v
      [] v.type = "str" /\ LiteralOf(v.txt) >= 0 ->
             [type |-> "float", num |-> LiteralOf(v.txt), txt |-> ""]
      [] OTHER -> v

\* ----------------------------------------------------------------- inputs
NameA == <<97>>
NameB == <<98>>
NameCapB == <<66>>

Sig(n, v) == [name |-> n, value |-> v]

\* the "signals" mappings of the model, each in the order of its keys
StdSignals == <<Sig(NameB, FloatV(25)), Sig(NameA, IntV(1))>>
OtherSignals == <<Sig(NameA, IntV(3)), Sig(NameCapB, IntV(2))>>
OneSignal == <<Sig(NameA, IntV(1))>>
TextSignal == <<Sig(NameA, StrV("abc"))>>
LiteralSignal == <<Sig(NameB, StrV("5.5"))>>
InfSignal == <<Sig(NameCapB, InfV)>>
NullSecond == <<Sig(NameA, IntV(1)), Sig(NameB, NullV)>>
NaNSignal == <<Sig(NameCapB, NaNV)>>

\* a JSON object body; hasTs/hasSignals tell whether the key is present
Body(hasTs, ts, hasSig, sigs) ==
    [object |-> TRUE, hasTs |-> hasTs, timestamp |-> ts,
     hasSignals |-> hasSig, signals |-> sigs]
\* the body "null": request.get_json() returns None
NullBody == [object |-> FALSE, hasTs |-> FALSE, timestamp |-> EmptyText,
             hasSignals |-> FALSE, signals |-> <<>>]

StdTimestamp == isoformat(MaxHours)

\* the bodies of the requests that exercise the validation, the values and
\* the lock: two batches of two numbers with different timestamps, the four
\* ways of failing "if not timestamp or not signals", values that are no
\* finite numbers, a timestamp that is no date-time and a body that is no
\* object
Payloads ==
    { Body(TRUE, StdTimestamp, TRUE, StdSignals),
      Body(TRUE, isoformat(MaxHours - 1), TRUE, OtherSignals),
      Body(FALSE, EmptyText, TRUE, StdSignals),
      Body(TRUE, EmptyText, TRUE, StdSignals),
      Body(TRUE, StdTimestamp, FALSE, <<>>),
      Body(TRUE, StdTimestamp, TRUE, <<>>),
      Body(TRUE, StdTimestamp, TRUE, TextSignal),
      Body(TRUE, StdTimestamp, TRUE, LiteralSignal),
      Body(TRUE, StdTimestamp, TRUE, InfSignal),
      Body(TRUE, StdTimestamp, TRUE, NullSecond),
      Body(TRUE, StdTimestamp, TRUE, NaNSignal),
      Body(TRUE, Garbage, TRUE, OneSignal),
      NullBody }

\* the bodies of the requests that exercise the list of signals: two
\* batches of two numbers, one whose second insert fails and one that is
\* rejected
StorePayloads ==
    { Body(TRUE, StdTimestamp, TRUE, StdSignals),
      Body(TRUE, isoformat(MaxHours - 1), TRUE, OtherSignals),
      Body(TRUE, StdTimestamp, TRUE, NullSecond),
      Body(FALSE, EmptyText, TRUE, StdSignals) }

\* the bodies of the requests that exercise the time range of the query:
\* one number under every timestamp of the model
Timestamps ==
    {isoformat(t) : t \in Instants}
        \cup {ZuluFormat(0), SpaceFormat(MaxHours), Garbage}
TimedPayloads == {Body(TRUE, ts, TRUE, OneSignal) : ts \in Timestamps}

\* the bodies of the requests that exercise the order of a query result:
\* one number under the latest instant, under the instant before it and
\* under a timestamp of another shape
RangePayloads ==
    {Body(TRUE, ts, TRUE, OneSignal) :
        ts \in {isoformat(MaxHours), isoformat(MaxHours - 1), ZuluFormat(0)}}

\* the bodies of the requests that exercise the broadcast: a batch that is
\* stored, one that is rejected and one whose second insert fails
LivePayloads ==
    { Body(TRUE, StdTimestamp, TRUE, StdSignals),
      Body(FALSE, EmptyText, TRUE, StdSignals),
      Body(TRUE, StdTimestamp, TRUE, NullSecond) }

NoRequest == [kind |-> "none", payload |-> NullBody, hours |-> 0]

\* the "error" of the answers: the literal of line 105, and str(e) of the
\* two exceptions of the model
InvalidPayload == "Invalid payload"
NoneHasNoGet == "'NoneType' object has no attribute 'get'"
NotNullFailed == "NOT NULL constraint failed: telemetry.value"
DatabaseIsLocked == "database is locked"

\* --------------------------------------------------------------- producer
EMIT_INTERVAL == 2     \* 1.0 second, in half seconds

\* what one requests.post of the producer ends with: a response with its
\* status code, or an exception
Response(status) == [kind |-> "response", status_code |-> status, exception |-> ""]
Raises(e) == [kind |-> "exception", status_code |-> 0, exception |-> e]
ConnectionError == Raises("ConnectionError")
Timeout == Raises("Timeout")
Outcomes == {Response(200), Response(400), Response(500), ConnectionError, Timeout}
NoOutcome == [kind |-> "none", status_code |-> 0, exception |-> ""]

\* generator.random_walk(): the walk moves by a step of at most step_size
WalkSteps(w) == {v \in (w - 1)..(w + 1) : 0 - MaxWalk <= v /\ v <= MaxWalk}

\* the payload of one iteration; of its five signals the model keeps the
\* random walk, the only one that depends on the iterations before
NameWalk == <<119>>
ProducerPayload(t, w) == Body(TRUE, isoformat(t), TRUE, <<Sig(NameWalk, FloatV(w))>>)

\* main() up to "while True": the generator is new and nothing was sent
ProducerStart ==
    [pc |-> "try", walk_value |-> 0, payload |-> NullBody, posts |-> 0,
     last |-> NoOutcome, slept |-> 0]

VARIABLES
    now,            \* datetime.utcnow(), in half seconds
    table,          \* rows of the telemetry table in rowid order
    db_lock,        \* Free or the request that holds db_lock
    pc,             \* position of each request in its handler
    req,            \* what each request asked
    code,           \* status code of the response, 0 until answered
    cutoff,         \* cutoff_time of a GET /api/telemetry
    rows,           \* cursor.fetchall() of get_recent_telemetry
    data,           \* body of a GET /api/telemetry response
    names,          \* body of a GET /api/signals response
    emitted,        \* socketio.emit('telemetry_update', ...) calls, in order
    connected,      \* observers with an open socket
    inbox,          \* events each observer received in its current session
    \* history, read only by the properties
    startNow,       \* the clock when a request arrived
    before,         \* the requests already answered 200 when a request arrived
    seen,           \* the committed rows at the moment a read ran its query
    watchers,       \* the observers connected ever since a request arrived
    doneAtConnect,  \* the requests already answered when an observer connected
    error,          \* the "error" of a 400 or 500 answer, "" when there is none
    attempts,       \* how often each request called store_telemetry
    producer,       \* the producer: its place in the loop and what it holds
    lingering       \* the requests whose connection is still open, with its
                    \* write transaction, after their store_telemetry raised

vars == <<now, table, db_lock, pc, req, code, cutoff, rows, data, names,
          emitted, connected, inbox, startNow, before, seen, watchers,
          doneAtConnect, error, attempts, producer, lingering>>

\* ------------------------------------------------------------------ store
\* a row of a connection that commits every statement of its own
RowAutocommit(ts, n, v, c) ==
    [timestamp |-> ts, signal_name |-> n, value |-> v, conn |-> c,
     committed |-> TRUE]

\* a row as its INSERT leaves it: in the open transaction of its connection
Row(ts, n, v, c) ==
    [timestamp |-> ts, signal_name |-> n, value |-> v, conn |-> c,
     committed |-> FALSE]

IsCommitted(row) == row.committed

\* what a connection other than the writer reads: the committed rows
Visible(t) == SelectSeq(t, IsCommitted)

\* the rows a connection inserted (its rowids are ascending)
RowsOf(t, r) == LET Mine(row) == row.conn = r IN SelectSeq(t, Mine)

\* a connection whose inserts are kept when it is dropped
CommitPartial(t, r) ==
    [i \in 1..Len(t) |->
        IF t[i].conn = r THEN [t[i] EXCEPT !.committed = TRUE] ELSE t[i]]

\* closing a connection with an open transaction rolls its inserts back
Rollback(t, r) == LET Others(row) == row.conn # r \/ row.committed
                  IN  SelectSeq(t, Others)

\* conn.commit(): the inserts of the connection become visible
Commit(t, r) ==
    [i \in 1..Len(t) |->
        IF t[i].conn = r THEN [t[i] EXCEPT !.committed = TRUE] ELSE t[i]]

\* -------------------------------------------------------------------- Init
Init ==
    /\ now = MaxHours
    /\ table = <<>>
    /\ db_lock = Free
    /\ pc = [r \in Requests |-> "idle"]
    /\ req = [r \in Requests |-> NoRequest]
    /\ code = [r \in Requests |-> 0]
    /\ cutoff = [r \in Requests |-> EmptyText]
    /\ rows = [r \in Requests |-> <<>>]
    /\ data = [r \in Requests |-> <<>>]
    /\ names = [r \in Requests |-> <<>>]
    /\ emitted = <<>>
    /\ connected = {}
    /\ inbox = [o \in Observers |-> <<>>]
    /\ startNow = [r \in Requests |-> 0]
    /\ before = [r \in Requests |-> {}]
    /\ seen = [r \in Requests |-> <<>>]
    /\ watchers = [r \in Requests |-> {}]
    /\ doneAtConnect = [o \in Observers |-> {}]
    /\ error = [r \in Requests |-> ""]
    /\ attempts = [r \in Requests |-> 0]
    /\ producer = ProducerStart
    /\ lingering = {}

\* a request arrives: requests are numbered in the order of their arrival
Arrives(r) ==
    /\ pc[r] = "idle"
    /\ IF r = 1 THEN TRUE ELSE pc[r - 1] # "idle"

\* history of a read: the clock and the ingests answered before it arrived
ReadArrival(r) ==
    /\ startNow' = [startNow EXCEPT ![r] = now]
    /\ before' = [before EXCEPT ![r] = {q \in Requests : code[q] = 200 /\ req[q].kind = "post"}]
    /\ UNCHANGED watchers

\* history of an ingest: the observers connected when it arrived
PostArrival(r) ==
    /\ watchers' = [watchers EXCEPT ![r] = connected]
    /\ UNCHANGED <<startNow, before>>

\* Python's "not x" for the timestamp and the signals of the payload
Falsy(present, x) == ~present \/ Len(x) = 0

\* ------------------------------------------------------ POST /api/telemetry
\* a validation that tests the timestamp only
RejectedByTimestamp(p) == Falsy(p.hasTs, p.timestamp)

\* if not timestamp or not signals
Rejected(p) == Falsy(p.hasTs, p.timestamp) \/ Falsy(p.hasSignals, p.signals)

\* receive_telemetry up to the call of store_telemetry
receive_telemetry(r, p) ==
    /\ Arrives(r)
    /\ PostArrival(r)
    /\ req' = [req EXCEPT ![r] = [kind |-> "post", payload |-> p, hours |-> 0]]
    /\ IF ~p.object
         THEN \* payload.get raises AttributeError, caught at line 115
              /\ code' = [code EXCEPT ![r] = 500]
              /\ error' = [error EXCEPT ![r] = NoneHasNoGet]
              /\ pc' = [pc EXCEPT ![r] = "done"]
              /\ attempts' = attempts
         ELSE IF Rejected(p)
         THEN /\ code' = [code EXCEPT ![r] = 400]
              /\ error' = [error EXCEPT ![r] = InvalidPayload]
              /\ pc' = [pc EXCEPT ![r] = "done"]
              /\ attempts' = attempts
         ELSE \* store_telemetry(timestamp, signals) is called
              /\ code' = code
              /\ error' = error
              /\ pc' = [pc EXCEPT ![r] = "store_lock"]
              /\ attempts' = [attempts EXCEPT ![r] = @ + 1]
    /\ UNCHANGED <<now, table, db_lock, cutoff, rows, data, names, emitted,
                   connected, inbox, seen, doneAtConnect, producer, lingering>>

\* a lock that never makes its caller wait
EnterUnlocked(r) == db_lock' = db_lock

\* db_lock.__enter__(): waits until the lock is free and takes it
Enter(r) == db_lock = Free /\ db_lock' = r

\* db_lock.__exit__(): the holder releases the lock
Exit(r) == db_lock' = IF db_lock = r THEN Free ELSE db_lock

\* a with block that keeps the lock when its body raises
LockLeaked(r) == db_lock' = db_lock

\* db_lock.__exit__() on the way of an exception out of the with block
ExitRaising(r) == Exit(r)

\* a handler that goes on to the broadcast after store_telemetry raised
ExceptThenEmit == "emit"

\* except Exception as e: the handler ends with the 500 answer
Except == "done"

\* a store_telemetry without its with block
WriteUnlocked(r) == EnterUnlocked(r)

\* store_telemetry: with db_lock
WriteLock(r) == Enter(r)

store_acquire(r) ==
    /\ pc[r] = "store_lock"
    /\ WriteLock(r)
    /\ pc' = [pc EXCEPT ![r] = "insert"]
    /\ UNCHANGED <<now, table, req, code, cutoff, rows, data, names, emitted,
                   connected, inbox, startNow, before, seen, watchers, doneAtConnect,
                   error, attempts, producer, lingering>>

\* store_telemetry: one cursor.execute("INSERT ...") of the loop, or the
\* conn.commit() and conn.close() after the last one.  An INSERT raises
\* when another connection holds the write lock of the database until the
\* timeout of sqlite3.connect has passed ("database is locked"), and when it
\* violates NOT NULL.  The exception leaves the with block, which releases
\* db_lock, and receive_telemetry answers 500; conn.close() is not reached,
\* so a connection that had begun to write stays open with its transaction
\* and its write lock until it is garbage collected.
store_insert(r) ==
    /\ pc[r] = "insert"
    /\ LET sigs == req[r].payload.signals
           i == Len(RowsOf(table, r)) + 1
       IN  IF i > Len(sigs)
             THEN /\ table' = Commit(table, r)
                  /\ Exit(r)
                  /\ pc' = [pc EXCEPT ![r] = "emit"]
                  /\ code' = code
                  /\ error' = error
                  /\ lingering' = lingering
             ELSE IF lingering # {}
             THEN /\ ExitRaising(r)
                  /\ pc' = [pc EXCEPT ![r] = Except]
                  /\ code' = [code EXCEPT ![r] = 500]
                  /\ error' = [error EXCEPT ![r] = DatabaseIsLocked]
                  /\ UNCHANGED <<table, lingering>>
             ELSE IF RealAffinity(sigs[i].value) = NullV
             THEN /\ ExitRaising(r)
                  /\ pc' = [pc EXCEPT ![r] = Except]
                  /\ code' = [code EXCEPT ![r] = 500]
                  /\ error' = [error EXCEPT ![r] = NotNullFailed]
                  /\ lingering' = lingering \cup {r}
                  /\ table' = table
             ELSE /\ table' = Append(table,
                          Row(req[r].payload.timestamp, sigs[i].name,
                              RealAffinity(sigs[i].value), r))
                  /\ UNCHANGED <<db_lock, pc, code, error, lingering>>
    /\ UNCHANGED <<now, req, cutoff, rows, data, names, emitted, connected,
                   inbox, startNow, before, seen, watchers,
                   doneAtConnect, attempts, producer>>

\* the garbage collector finalizes the connection a failed store_telemetry
\* left open: sqlite3_close rolls its transaction back
collect(r) ==
    /\ r \in lingering
    /\ table' = Rollback(table, r)
    /\ lingering' = lingering \ {r}
    /\ UNCHANGED <<now, db_lock, pc, req, code, cutoff, rows, data, names,
                   emitted, connected, inbox, startNow, before, seen, watchers,
                   doneAtConnect, error, attempts, producer>>

Update(r) == [event |-> "telemetry_update", req |-> r, payload |-> req[r].payload]

\* socketio.emit('telemetry_update', payload): to every connected observer
emit_update(r) ==
    /\ pc[r] = "emit"
    /\ emitted' = Append(emitted, Update(r))
    /\ inbox' = [o \in Observers |->
                    IF o \in connected THEN Append(inbox[o], Update(r))
                    ELSE inbox[o]]
    /\ pc' = [pc EXCEPT ![r] = "return"]
    /\ UNCHANGED <<now, table, db_lock, req, code, cutoff, rows, data, names,
                   connected, startNow, before, seen, watchers,
                   doneAtConnect,
                   error, attempts, producer, lingering>>

\* return jsonify({"status": "success"}), 200
post_return(r) ==
    /\ pc[r] = "return"
    /\ req[r].kind = "post"
    /\ code' = [code EXCEPT ![r] = 200]
    /\ pc' = [pc EXCEPT ![r] = "done"]
    /\ UNCHANGED <<now, table, db_lock, req, cutoff, rows, data, names,
                   emitted, connected, inbox, startNow, before, seen, watchers, doneAtConnect,
                   error, attempts, producer, lingering>>

\* ------------------------------------------------------- GET /api/telemetry
\* SELECT ... WHERE timestamp >= ?: the comparison of two TEXT values
Where(t, c) == LET Recent(row) == TextLeq(c, row.timestamp) IN SelectSeq(t, Recent)

\* ORDER BY timestamp ASC over idx_timestamp: rows of equal timestamp come
\* in rowid order
RECURSIVE OrderByTimestamp(_)
OrderByTimestamp(t) ==
    IF t = <<>> THEN <<>>
    ELSE LET front == OrderByTimestamp(SubSeq(t, 1, Len(t) - 1))
             last == t[Len(t)]
             k == Cardinality({i \in 1..Len(front) :
                                  TextLeq(front[i].timestamp, last.timestamp)})
         IN  SubSeq(front, 1, k) \o <<last>> \o SubSeq(front, k + 1, Len(front))

\* the SELECT without its ORDER BY: rows in rowid order
SelectByRowid(t, c) == Where(Visible(t), c)

Select(t, c) == OrderByTimestamp(Where(Visible(t), c))

\* the grouping loop of get_recent_telemetry: a dict keeps the order in
\* which its keys were first set
Entry(row) == [timestamp |-> row.timestamp, value |-> row.value, conn |-> row.conn]

RECURSIVE Group(_)
Group(rs) ==
    IF rs = <<>> THEN <<>>
    ELSE LET d == Group(SubSeq(rs, 1, Len(rs) - 1))
             row == rs[Len(rs)]
         IN  IF \E i \in 1..Len(d) : d[i].name = row.signal_name
               THEN [i \in 1..Len(d) |->
                       IF d[i].name = row.signal_name
                         THEN [d[i] EXCEPT !.entries = Append(@, Entry(row))]
                         ELSE d[i]]
               ELSE Append(d, [name |-> row.signal_name, entries |-> <<Entry(row)>>])

\* get_telemetry up to the "with db_lock" of get_recent_telemetry:
\* cutoff_time is computed before the lock is taken
get_telemetry(r, h) ==
    /\ Arrives(r)
    /\ ReadArrival(r)
    /\ req' = [req EXCEPT ![r] = [kind |-> "telemetry", payload |-> NullBody, hours |-> h]]
    /\ cutoff' = [cutoff EXCEPT ![r] = isoformat(now - h)]
    /\ pc' = [pc EXCEPT ![r] = "read_lock"]
    /\ UNCHANGED <<now, table, db_lock, code, rows, data, names, emitted,
                   connected, inbox, seen, doneAtConnect,
                   error, attempts, producer, lingering>>

\* a read without its with block
ReadUnlocked(r) == EnterUnlocked(r)

\* with db_lock, in get_recent_telemetry and in get_signals
ReadLock(r) == Enter(r)

read_acquire(r) ==
    /\ pc[r] = "read_lock"
    /\ ReadLock(r)
    /\ pc' = [pc EXCEPT ![r] = "query"]
    /\ UNCHANGED <<now, table, req, code, cutoff, rows, data, names, emitted,
                   connected, inbox, startNow, before, seen, watchers, doneAtConnect,
                   error, attempts, producer, lingering>>

\* the SELECT, fetchall and close of get_recent_telemetry and the end of
\* its with block; then, on what was fetched, the grouping loop and
\* return jsonify(data), 200
telemetry_query(r) ==
    /\ pc[r] = "query"
    /\ req[r].kind = "telemetry"
    /\ rows' = [rows EXCEPT ![r] = Select(table, cutoff[r])]
    /\ seen' = [seen EXCEPT ![r] = Visible(table)]
    /\ Exit(r)
    /\ data' = [data EXCEPT ![r] = Group(rows'[r])]
    /\ code' = [code EXCEPT ![r] = 200]
    /\ pc' = [pc EXCEPT ![r] = "done"]
    /\ UNCHANGED <<now, table, req, cutoff, names, emitted, connected, inbox,
                   startNow, before, watchers, doneAtConnect,
                   error, attempts, producer, lingering>>

\* --------------------------------------------------------- GET /api/signals
\* the least text of a non-empty set
Least(S) == CHOOSE x \in S : \A y \in S : TextLeq(x, y)

RECURSIVE Ascending(_)
Ascending(S) == IF S = {} THEN <<>> ELSE <<Least(S)>> \o Ascending(S \ {Least(S)})

\* the names in the order of their first row, without ORDER BY
RECURSIVE FirstSeen(_)
FirstSeen(t) ==
    IF t = <<>> THEN <<>>
    ELSE LET front == FirstSeen(SubSeq(t, 1, Len(t) - 1))
             n == t[Len(t)].signal_name
         IN  IF \E i \in 1..Len(front) : front[i] = n THEN front ELSE Append(front, n)

DistinctUnordered(t) == FirstSeen(Visible(t))

\* SELECT DISTINCT signal_name FROM telemetry ORDER BY signal_name
DistinctSignals(t) ==
    Ascending({Visible(t)[i].signal_name : i \in 1..Len(Visible(t))})

get_signals(r) ==
    /\ Arrives(r)
    /\ ReadArrival(r)
    /\ req' = [req EXCEPT ![r] = [kind |-> "signals", payload |-> NullBody, hours |-> 0]]
    /\ pc' = [pc EXCEPT ![r] = "read_lock"]
    /\ UNCHANGED <<now, table, db_lock, code, cutoff, rows, data, names,
                   emitted, connected, inbox, seen, doneAtConnect,
                   error, attempts, producer, lingering>>

\* the SELECT DISTINCT of get_signals, the end of its with block and
\* return jsonify(signals), 200
signals_query(r) ==
    /\ pc[r] = "query"
    /\ req[r].kind = "signals"
    /\ names' = [names EXCEPT ![r] = DistinctSignals(table)]
    /\ seen' = [seen EXCEPT ![r] = Visible(table)]
    /\ Exit(r)
    /\ code' = [code EXCEPT ![r] = 200]
    /\ pc' = [pc EXCEPT ![r] = "done"]
    /\ UNCHANGED <<now, table, req, cutoff, rows, data, emitted, connected,
                   inbox, startNow, before, watchers, doneAtConnect,
                   error, attempts, producer, lingering>>

\* -------------------------------------------------------------- GET /health
health(r) ==
    /\ Arrives(r)
    /\ req' = [req EXCEPT ![r] = [kind |-> "health", payload |-> NullBody, hours |-> 0]]
    /\ code' = [code EXCEPT ![r] = 200]
    /\ pc' = [pc EXCEPT ![r] = "done"]
    /\ UNCHANGED <<now, table, db_lock, cutoff, rows, data, names, emitted,
                   connected, inbox, startNow, before, seen, watchers, doneAtConnect,
                   error, attempts, producer, lingering>>

\* ---------------------------------------------------------------- observers
Connected == [event |-> "connection_response", req |-> 0, payload |-> NullBody]

\* a connect that replays the updates emitted so far
GreetingWithBacklog == <<Connected>> \o emitted

\* emit('connection_response', {"status": "connected"}): the only event
Greeting == <<Connected>>

\* handle_connect: a new session, which starts with the greeting
handle_connect(o) ==
    /\ o \notin connected
    /\ connected' = connected \cup {o}
    /\ inbox' = [inbox EXCEPT ![o] = Greeting]
    /\ doneAtConnect' = [doneAtConnect EXCEPT ![o] = {r \in Requests : pc[r] = "done"}]
    /\ UNCHANGED <<now, table, db_lock, pc, req, code, cutoff, rows, data,
                   names, emitted, startNow, before, seen, watchers,
                   error, attempts, producer, lingering>>

\* handle_disconnect: the session ends
handle_disconnect(o) ==
    /\ o \in connected
    /\ connected' = connected \ {o}
    /\ inbox' = [inbox EXCEPT ![o] = <<>>]
    /\ doneAtConnect' = [doneAtConnect EXCEPT ![o] = {}]
    /\ watchers' = [r \in Requests |-> watchers[r] \ {o}]
    /\ UNCHANGED <<now, table, db_lock, pc, req, code, cutoff, rows, data,
                   names, emitted, startNow, before, seen,
                   error, attempts, producer, lingering>>

\* ---------------------------------------------------------------- init_db
\* a CREATE TABLE that replaces the table
RecreateTable(t) == <<>>

\* CREATE TABLE IF NOT EXISTS telemetry, CREATE INDEX IF NOT EXISTS: the
\* table exists and keeps its rows
CreateTableIfNotExists(t) == t

\* init_db on the existing database, when the backend starts: no request is
\* in progress
init_db ==
    /\ \A r \in Requests : pc[r] \in {"idle", "done"}
    /\ table' = CreateTableIfNotExists(table)
    /\ UNCHANGED <<now, db_lock, pc, req, code, cutoff, rows, data, names,
                   emitted, connected, inbox, startNow, before, seen, watchers,
                   doneAtConnect, error, attempts, producer, lingering>>

\* ---------------------------------------------------- producer.py: main()
\* a loop that ends when a send fails
StopOnFailure(o) == IF o = Response(200) THEN "sleep" ELSE "stopped"

\* after the try statement, whatever happened in it (a response of any
\* status, a ConnectionError, any other Exception): time.sleep(EMIT_INTERVAL)
AfterTry(o) == "sleep"

\* lines 61-76: the timestamp, the signals and the payload of the iteration
producer_build ==
    /\ producer.pc = "try"
    /\ \E w \in WalkSteps(producer.walk_value) :
          producer' = [producer EXCEPT !.pc = "post", !.walk_value = w,
                                       !.payload = ProducerPayload(now, w),
                                       !.posts = 0]
    /\ UNCHANGED <<now, table, db_lock, pc, req, code, cutoff, rows, data,
                   names, emitted, connected, inbox, startNow, before, seen,
                   watchers, doneAtConnect, error, attempts, lingering>>

\* lines 79-89: requests.post(BACKEND_URL, json=payload, timeout=2) and what
\* is printed for its response or its exception
producer_post(o) ==
    /\ producer.pc = "post"
    /\ producer' = [producer EXCEPT !.pc = AfterTry(o), !.posts = @ + 1, !.last = o]
    /\ UNCHANGED <<now, table, db_lock, pc, req, code, cutoff, rows, data,
                   names, emitted, connected, inbox, startNow, before, seen,
                   watchers, doneAtConnect, error, attempts, lingering>>

\* line 91: time.sleep(EMIT_INTERVAL), and back to the top of the loop
producer_sleep ==
    /\ producer.pc = "sleep"
    /\ producer' = [producer EXCEPT !.pc = "try", !.slept = EMIT_INTERVAL]
    /\ UNCHANGED <<now, table, db_lock, pc, req, code, cutoff, rows, data,
                   names, emitted, connected, inbox, startNow, before, seen,
                   watchers, doneAtConnect, error, attempts, lingering>>

\* the clock advances
Tick ==
    /\ now < MaxNow
    /\ now' = now + 1
    /\ UNCHANGED <<table, db_lock, pc, req, code, cutoff, rows, data, names,
                   emitted, connected, inbox, startNow, before, seen, watchers, doneAtConnect,
                   error, attempts, producer, lingering>>

\* the request handlers, without the clock and the observers, over every
\* payload
Next ==
    \/ \E r \in Calls, p \in Payloads : receive_telemetry(r, p)
    \/ \E r \in Calls : store_acquire(r)
    \/ \E r \in Calls : store_insert(r)
    \/ \E r \in Calls : collect(r)
    \/ \E r \in Calls : emit_update(r)
    \/ \E r \in Calls : post_return(r)
    \/ \E r \in Calls : get_telemetry(r, MaxHours)
    \/ \E r \in Calls : read_acquire(r)
    \/ \E r \in Calls : telemetry_query(r)
    \/ \E r \in Calls : get_signals(r)
    \/ \E r \in Calls : signals_query(r)
    \/ \E r \in Calls : health(r)

Spec == Init /\ [][Next]_vars

\* ingest and the list of signals
NextSignals ==
    \/ \E r \in Requests, p \in StorePayloads : receive_telemetry(r, p)
    \/ \E r \in Requests : store_acquire(r)
    \/ \E r \in Requests : store_insert(r)
    \/ \E r \in Requests : collect(r)
    \/ \E r \in Requests : emit_update(r)
    \/ \E r \in Requests : post_return(r)
    \/ \E r \in Requests : get_signals(r)
    \/ \E r \in Requests : read_acquire(r)
    \/ \E r \in Requests : signals_query(r)

SpecSignals == Init /\ [][NextSignals]_vars

\* ingest and historical query under a running clock
NextTime ==
    \/ \E r \in Requests, p \in TimedPayloads : receive_telemetry(r, p)
    \/ \E r \in Requests : store_acquire(r)
    \/ \E r \in Requests : store_insert(r)
    \/ \E r \in Requests : emit_update(r)
    \/ \E r \in Requests : post_return(r)
    \/ \E r \in Requests, h \in 0..MaxHours : get_telemetry(r, h)
    \/ \E r \in Requests : read_acquire(r)
    \/ \E r \in Requests : telemetry_query(r)
    \/ Tick

SpecTime == Init /\ [][NextTime]_vars

\* ingest and the observers
NextLive ==
    \/ \E r \in Calls, p \in LivePayloads : receive_telemetry(r, p)
    \/ \E r \in Calls : store_acquire(r)
    \/ \E r \in Calls : store_insert(r)
    \/ \E r \in Calls : collect(r)
    \/ \E r \in Calls : emit_update(r)
    \/ \E r \in Calls : post_return(r)
    \/ \E o \in Observers : handle_connect(o)
    \/ \E o \in Observers : handle_disconnect(o)

SpecLive == Init /\ [][NextLive]_vars

\* every operation of the backend: the handlers, the observers and init_db
NextAll ==
    \/ \E r \in Calls, p \in LivePayloads : receive_telemetry(r, p)
    \/ \E r \in Calls : store_acquire(r)
    \/ \E r \in Calls : store_insert(r)
    \/ \E r \in Calls : collect(r)
    \/ \E r \in Calls : emit_update(r)
    \/ \E r \in Calls : post_return(r)
    \/ \E r \in Calls : get_telemetry(r, MaxHours)
    \/ \E r \in Calls : read_acquire(r)
    \/ \E r \in Calls : telemetry_query(r)
    \/ \E r \in Calls : get_signals(r)
    \/ \E r \in Calls : signals_query(r)
    \/ \E r \in Calls : health(r)
    \/ \E o \in Observers : handle_connect(o)
    \/ \E o \in Observers : handle_disconnect(o)
    \/ init_db

SpecAll == Init /\ [][NextAll]_vars

\* no request is in progress
Quiet == \A r \in Requests : pc[r] \in {"idle", "done"}

\* ingest and historical queries of every range at one now, one request
\* after the other: what get_recent_telemetry returns on each store content
NextRange ==
    \/ \E r \in Requests, p \in RangePayloads : Quiet /\ receive_telemetry(r, p)
    \/ \E r \in Requests : store_acquire(r)
    \/ \E r \in Requests : store_insert(r)
    \/ \E r \in Requests : emit_update(r)
    \/ \E r \in Requests : post_return(r)
    \/ \E r \in Requests, h \in 0..MaxHours : Quiet /\ get_telemetry(r, h)
    \/ \E r \in Requests : read_acquire(r)
    \/ \E r \in Requests : telemetry_query(r)

SpecRange == Init /\ [][NextRange]_vars

\* a request takes db_lock
TakesLock(r) == store_acquire(r) \/ read_acquire(r)

\* a request takes a step of its handler that waits for nothing
Proceeds(r) ==
    \/ store_insert(r)
    \/ emit_update(r)
    \/ post_return(r)
    \/ telemetry_query(r)
    \/ signals_query(r)

\* fair scheduling: the threads of the handlers keep running, so as long as
\* some request can take db_lock or the next step of its handler, one does.
\* The requests of a behaviour are finitely many and a handler has no loop
\* but the one over the signals, so this is enough for every one of them to
\* get its turn.
Fairness == WF_vars(\E r \in Calls : TakesLock(r) \/ Proceeds(r))

\* the handlers that take db_lock, with a batch that is stored, one that is
\* rejected and one whose second insert fails
NextLock ==
    \/ \E r \in Calls, p \in LivePayloads : receive_telemetry(r, p)
    \/ \E r \in Calls : store_acquire(r)
    \/ \E r \in Calls : store_insert(r)
    \/ \E r \in Calls : collect(r)
    \/ \E r \in Calls : emit_update(r)
    \/ \E r \in Calls : post_return(r)
    \/ \E r \in Calls : get_telemetry(r, MaxHours)
    \/ \E r \in Calls : read_acquire(r)
    \/ \E r \in Calls : telemetry_query(r)
    \/ \E r \in Calls : get_signals(r)
    \/ \E r \in Calls : signals_query(r)

SpecFair == Init /\ [][NextLock]_vars /\ Fairness

\* the producer and the clock; the backend is what answers its POST
NextProducer ==
    \/ producer_build
    \/ \E o \in Outcomes : producer_post(o)
    \/ producer_sleep
    \/ Tick

\* the loop is one thread: each of its steps is taken once it can be
\* (requests.post returns within its timeout, time.sleep returns)
SpecProducer ==
    /\ Init /\ [][NextProducer]_vars
    /\ WF_vars(producer_build)
    /\ WF_vars(\E o \in Outcomes : producer_post(o))
    /\ WF_vars(producer_sleep)

\* ======================================================================
\* Properties
\* ======================================================================
IsPost(r) == req[r].kind = "post"
Answered(r) == pc[r] = "done"

\* the instant a text denotes as a date-time, NoTime when it denotes none
NoTime == 0 - 1
ParseTime(s) ==
    LET T == {t \in 0..(MaxInstant + MaxNow) :
                 s \in {isoformat(t), ZuluFormat(t), SpaceFormat(t)}}
    IN  IF T = {} THEN NoTime ELSE CHOOSE t \in T : TRUE

\* a finite number
IsNumber(v) == v.type \in {"int", "float"} /\ v.txt = ""

\* the value read back from the store is the number that was sent
SameNumber(stored, sent) ==
    /\ IsNumber(sent) /\ IsNumber(stored)
    /\ stored.num = sent.num

\* a payload with a non-empty timestamp and a non-empty mapping
WellFormed(p) ==
    /\ p.object
    /\ p.hasTs /\ p.timestamp # EmptyText
    /\ p.hasSignals /\ p.signals # <<>>

\* a valid batch: its values are numbers
ValidBatch(p) ==
    /\ WellFormed(p)
    /\ \A i \in 1..Len(p.signals) : IsNumber(p.signals[i].value)

\* the batch of the request has been committed
Stored(r) ==
    /\ IsPost(r)
    /\ pc[r] \in {"emit", "return"} \/ (pc[r] = "done" /\ code[r] = 200)

RECURSIVE SumOfBatches(_)
SumOfBatches(S) ==
    IF S = {} THEN 0
    ELSE LET r == CHOOSE x \in S : TRUE
         IN  Len(req[r].payload.signals) + SumOfBatches(S \ {r})

\* the updates a request emitted
UpdatesOf(r) == {i \in 1..Len(emitted) : emitted[i].req = r}

IsHistorical(g) == req[g].kind = "telemetry" /\ Answered(g)
IsSignalList(g) == req[g].kind = "signals" /\ Answered(g)

\* the entries a response holds under a signal name
EntriesOf(d, n) ==
    IF \E i \in 1..Len(d) : d[i].name = n
      THEN d[CHOOSE i \in 1..Len(d) : d[i].name = n].entries
      ELSE <<>>

\* the first instant of the range of a historical query, and its last
RangeStart(g) == startNow[g] - req[g].hours
RangeEnd(g) == startNow[g]

\* ---------------------------------------------------------------------- C1
\* C1: every valid batch (non-empty timestamp, non-empty mapping of names to
\* numbers) is answered 200, and a historical query that arrives after that
\* answer and whose range covers the timestamp of the batch returns each
\* pair of the batch exactly once for that ingest call, under its signal
\* name and with the value that was sent.
C1_ValidBatchStoredAndReturned ==
    /\ \A r \in Requests :
          (IsPost(r) /\ Answered(r) /\ ValidBatch(req[r].payload)) => code[r] = 200
    /\ \A g \in Requests : IsHistorical(g) =>
          \A r \in before[g] :
              LET p == req[r].payload
                  t == ParseTime(p.timestamp)
              IN  (/\ ValidBatch(p)
                   /\ t # NoTime /\ RangeStart(g) <= t /\ t <= RangeEnd(g))
                  => \A i \in 1..Len(p.signals) :
                        LET es == EntriesOf(data[g], p.signals[i].name)
                            mine == {k \in 1..Len(es) : es[k].conn = r}
                        IN  /\ Cardinality(mine) = 1
                            /\ \A k \in mine :
                                  /\ es[k].timestamp = p.timestamp
                                  /\ SameNumber(es[k].value, p.signals[i].value)

\* ---------------------------------------------------------------------- C2
\* C2: get_recent_telemetry(hours=H) called at time now returns no sample
\* whose timestamp is older than now - H, and returns every stored sample
\* whose timestamp lies in [now - H, now].
C2_RangeOfHistoricalQuery ==
    \A g \in Requests : IsHistorical(g) =>
        /\ \A i \in 1..Len(data[g]) : \A k \in 1..Len(data[g][i].entries) :
              LET t == ParseTime(data[g][i].entries[k].timestamp)
              IN  t # NoTime => t >= RangeStart(g)
        /\ \A i \in 1..Len(seen[g]) :
              LET row == seen[g][i]
                  t == ParseTime(row.timestamp)
              IN  (t # NoTime /\ RangeStart(g) <= t /\ t <= RangeEnd(g))
                  => \E k \in 1..Len(EntriesOf(data[g], row.signal_name)) :
                        EntriesOf(data[g], row.signal_name)[k] = Entry(row)

\* ---------------------------------------------------------------------- C3
\* C3: store_telemetry calls that run concurrently lose and duplicate no
\* row: the store holds the K rows of every committed batch, in the order of
\* its mapping, and the sum of the K over the committed batches in all; and
\* in insertion order no row of another batch lies between two rows of one
\* batch.
C3_BatchesWholeAndContiguous ==
    /\ \A r \in Requests : Stored(r) =>
          LET mine == RowsOf(table, r)
              sigs == req[r].payload.signals
          IN  /\ Len(mine) = Len(sigs)
              /\ \A i \in 1..Len(sigs) :
                    /\ mine[i].committed
                    /\ mine[i].timestamp = req[r].payload.timestamp
                    /\ mine[i].signal_name = sigs[i].name
                    /\ mine[i].value = RealAffinity(sigs[i].value)
    /\ Len(Visible(table)) = SumOfBatches({r \in Requests : Stored(r)})
    /\ \A i, j, k \in 1..Len(table) :
          (i < j /\ j < k /\ table[i].conn = table[k].conn)
              => table[j].conn = table[i].conn

\* two calls with different timestamps and two signals each overlapped:
\* both have arrived before either was answered, the first has committed its
\* two rows and the second is between its two inserts
C3_Witness ==
    \E r1, r2 \in Requests :
        /\ pc[r1] = "emit" /\ Len(RowsOf(table, r1)) = 2
        /\ pc[r2] = "insert" /\ Len(RowsOf(table, r2)) = 1
        /\ Len(req[r2].payload.signals) = 2
        /\ req[r2].payload.timestamp # req[r1].payload.timestamp

C5_NonNumericRejected ==
    \A r \in Requests :
        (/\ IsPost(r) /\ Answered(r)
         /\ WellFormed(req[r].payload)
         /\ \E i \in 1..Len(req[r].payload.signals) :
               req[r].payload.signals[i].value.type \notin {"int", "float"})
        => /\ code[r] = 400
           /\ RowsOf(table, r) = <<>>
           /\ UpdatesOf(r) = {}

\* ---------------------------------------------------------------------- C6
\* what the store holds is the value the update carries: the same number, or
\* the same value of another type
SameData(stored, sent) ==
    IF sent.type \in {"int", "float"}
      THEN stored.type = "float" /\ stored.num = sent.num /\ stored.txt = sent.txt
      ELSE stored = sent

\* C6: every POST answered 200 has caused exactly one telemetry_update, whose
\* payload carries the timestamp and the signals the call wrote to the
\* store; whenever no request is in progress there are as many updates as
\* POSTs answered 200.
C6_OneUpdatePerIngest ==
    /\ \A r \in Requests : (IsPost(r) /\ code[r] = 200) =>
          /\ Cardinality(UpdatesOf(r)) = 1
          /\ \A u \in UpdatesOf(r) :
                LET sent == emitted[u].payload
                    mine == RowsOf(table, r)
                IN  /\ Len(mine) = Len(sent.signals)
                    /\ \A i \in 1..Len(mine) :
                          /\ mine[i].timestamp = sent.timestamp
                          /\ mine[i].signal_name = sent.signals[i].name
                          /\ SameData(mine[i].value, sent.signals[i].value)
    /\ (\A r \in Requests : pc[r] \in {"idle", "done"}) =>
          Len(emitted) = Cardinality({r \in Requests : IsPost(r) /\ code[r] = 200})

\* ---------------------------------------------------------------------- C7
IsUpdateOf(e, r) == e.event = "telemetry_update" /\ e.req = r

\* C7: an observer that has been connected ever since a POST arrived has,
\* once the POST is answered 200, received exactly one telemetry_update for
\* it, with the body of the POST as payload; an observer has received no
\* telemetry_update of a POST that was answered before it connected: its
\* session starts with the connection_response and holds no other one.
C7_UpdatesReachConnectedObservers ==
    /\ \A r \in Requests : (IsPost(r) /\ code[r] = 200) =>
          \A o \in watchers[r] :
              LET got == {i \in 1..Len(inbox[o]) : IsUpdateOf(inbox[o][i], r)}
              IN  /\ o \in connected
                  /\ Cardinality(got) = 1
                  /\ \A i \in got : inbox[o][i].payload = req[r].payload
    /\ \A o \in Observers :
          /\ \A i \in 1..Len(inbox[o]) :
                /\ inbox[o][i].event = "telemetry_update"
                      => inbox[o][i].req \notin doneAtConnect[o]
                /\ inbox[o][i].event = "connection_response" <=> i = 1
          /\ o \in connected => Len(inbox[o]) >= 1

\* an observer connected after one POST was answered 200 and before another
\* arrived, and both are answered
C7_Witness ==
    \E o \in connected : \E r1, r2 \in Requests :
        /\ IsPost(r1) /\ code[r1] = 200 /\ r1 \in doneAtConnect[o]
        /\ IsPost(r2) /\ code[r2] = 200 /\ o \in watchers[r2]
        /\ Len(inbox[o]) = 2

\* ---------------------------------------------------------------------- C8
\* the signal names of the batches a read found committed
NamesIngested(g) ==
    UNION {{req[seen[g][i].conn].payload.signals[k].name :
                k \in 1..Len(req[seen[g][i].conn].payload.signals)} :
           i \in 1..Len(seen[g])}

\* C8: GET /api/signals returns the names of the batches ingested before it
\* ran, each once and in ascending bytewise order, and no name of a request
\* that was rejected or failed; two calls that find the same batches
\* ingested return the same list.
C8_SignalsSortedDistinct ==
    /\ \A g \in Requests : IsSignalList(g) =>
          /\ \A i, j \in 1..Len(names[g]) : i < j => TextLess(names[g][i], names[g][j])
          /\ {names[g][i] : i \in 1..Len(names[g])} = NamesIngested(g)
          /\ \A i \in 1..Len(seen[g]) : code[seen[g][i].conn] \in {0, 200}
    /\ \A g, h \in Requests :
          (IsSignalList(g) /\ IsSignalList(h) /\ seen[g] = seen[h]) => names[g] = names[h]

\* two calls in a row return "a", "b" after a batch that names "b" before "a"
C8_Witness ==
    \E g, h \in Requests :
        /\ g # h /\ IsSignalList(g) /\ IsSignalList(h)
        /\ names[g] = <<NameA, NameB>>
        /\ names[h] = names[g]
        /\ \E r \in Requests : Stored(r) /\ req[r].payload.signals = StdSignals

\* ---------------------------------------------------------------------- C9
\* C9 as claimed: a read does not wait for db_lock: a read that has reached
\* its with block can always go on to its query, also while a request is
\* inside store_telemetry.
C9_ReadsNeverWait ==
    \A g \in Requests : pc[g] = "read_lock" => ENABLED read_acquire(g)

\* C9 as amended: reads take db_lock: a read runs its query only while it
\* holds db_lock, so never while a request is inside store_telemetry, and a
\* read that has reached its with block while another request holds db_lock
\* cannot go on.
C9_ReadsHoldLock ==
    \A g \in Requests :
        /\ pc[g] = "query" =>
              /\ db_lock = g
              /\ \A r \in Requests : pc[r] # "insert"
        /\ (pc[g] = "read_lock" /\ db_lock # Free) => ~ENABLED read_acquire(g)

\* a read waits at its with block while a request is between the two
\* inserts of its batch
C9_Witness ==
    \E g, r \in Requests :
        /\ pc[g] = "read_lock"
        /\ pc[r] = "insert" /\ db_lock = r /\ Len(RowsOf(table, r)) = 1

\* --------------------------------------------------------------------- C10
\* C10: every sample in the store has a timestamp that parses as a date-time
\* and a value that is a finite number.
C10_SamplesWellTyped ==
    \A i \in 1..Len(table) : table[i].committed =>
        /\ ParseTime(table[i].timestamp) # NoTime
        /\ table[i].value.type = "float" /\ table[i].value.txt = ""

\* --------------------------------------------------------------------- C11
\* t is s with rows added at its end
IsPrefix(s, t) == Len(s) <= Len(t) /\ SubSeq(t, 1, Len(s)) = s

\* C11: the store is append-only: in every step of every operation the
\* committed rows keep their timestamp, signal_name, value and position and
\* none is removed; the committed rows change only in the step in which a
\* POST commits its batch, and only by rows added at the end.
C11_StoreAppendOnly ==
    [][/\ IsPrefix(Visible(table), Visible(table'))
       /\ Visible(table') # Visible(table) =>
              \E r \in Requests :
                  IsPost(r) /\ pc[r] = "insert" /\ pc'[r] = "emit"]_vars

\* the store holds the two rows of a batch, a later historical query has
\* returned them and an observer is connected
C11_Witness ==
    \E r, g \in Requests :
        /\ Stored(r) /\ code[r] = 200 /\ Len(Visible(table)) = 2
        /\ IsHistorical(g) /\ Len(seen[g]) = 2
        /\ connected # {}

\* --------------------------------------------------------------------- C12
\* a payload that passes the validation and makes an INSERT of
\* store_telemetry raise
Raising(p) ==
    /\ WellFormed(p)
    /\ \E i \in 1..Len(p.signals) : RealAffinity(p.signals[i].value) = NullV

\* store_telemetry raised in the request
StoreRaised(r) == IsPost(r) /\ error[r] \in {NotNullFailed, DatabaseIsLocked}

\* C12: a POST whose store_telemetry raised is answered 500 with the message
\* of the exception as "error", has called store_telemetry once and has
\* emitted no telemetry_update; a POST whose payload makes an INSERT raise is
\* such a request once it is answered, and emits no update before.
C12_FailedIngestAnswered500 ==
    \A r \in Requests :
        /\ StoreRaised(r) =>
              /\ Answered(r) /\ code[r] = 500
              /\ attempts[r] = 1
              /\ UpdatesOf(r) = {}
        /\ (IsPost(r) /\ Raising(req[r].payload)) =>
              /\ UpdatesOf(r) = {}
              /\ Answered(r) => StoreRaised(r)

\* the second insert of a batch raised and the request was answered 500
\* with the message of the constraint, while the batch of another request is
\* stored and broadcast
C12_Witness ==
    \E r, q \in Requests :
        /\ IsPost(r) /\ req[r].payload.signals = NullSecond
        /\ code[r] = 500 /\ error[r] = NotNullFailed /\ attempts[r] = 1
        /\ Stored(q) /\ Len(emitted) = 1

\* --------------------------------------------------------------------- C13
\* the place in insertion order of the row an entry of signal n was made of
RowidOf(t, n, e) ==
    CHOOSE i \in 1..Len(t) : t[i].signal_name = n /\ Entry(t[i]) = e

\* C13: in every result of get_recent_telemetry the entries of a signal are
\* ascending by the date-time of their timestamp, and of two entries of the
\* same date-time the one whose row was inserted first (whose batch finished
\* its critical section first) comes first.
C13_EntriesAscendingByTime ==
    \A g \in Requests : IsHistorical(g) =>
        \A d \in 1..Len(data[g]) :
            LET es == data[g][d].entries
                n == data[g][d].name
            IN  \A i, j \in 1..Len(es) :
                    LET ti == ParseTime(es[i].timestamp)
                        tj == ParseTime(es[j].timestamp)
                    IN  (i < j /\ ti # NoTime /\ tj # NoTime) =>
                            /\ ti <= tj
                            /\ ti = tj => RowidOf(seen[g], n, es[i])
                                              < RowidOf(seen[g], n, es[j])

\* --------------------------------------------------------------------- C14
\* s is what is left of t when entries are dropped from its front
IsSuffix(s, t) ==
    /\ Len(s) <= Len(t)
    /\ SubSeq(t, Len(t) - Len(s) + 1, Len(t)) = s

\* what get_recent_telemetry(h) returns on the store and at the clock of
\* the state
RecentNow(h) == Group(Select(table, isoformat(now - h)))

\* the signal names of a response
NamesOf(d) == {d[i].name : i \in 1..Len(d)}

\* C14: on one store content and at one now, for H1 <= H2, the sequence
\* get_recent_telemetry(H1) returns for a signal is a contiguous suffix of
\* the sequence get_recent_telemetry(H2) returns for it (empty when the
\* signal is absent): for the calls that could be made in the state, and for
\* two answered calls that found the same store at the same now.
C14_SmallerRangeIsSuffix ==
    /\ LET result == [h \in 0..MaxHours |-> RecentNow(h)]
       IN  \A h1, h2 \in 0..MaxHours : h1 <= h2 =>
               \A n \in NamesOf(result[h1]) \cup NamesOf(result[h2]) :
                   IsSuffix(EntriesOf(result[h1], n), EntriesOf(result[h2], n))
    /\ \A g1, g2 \in Requests :
          (/\ IsHistorical(g1) /\ IsHistorical(g2)
           /\ seen[g1] = seen[g2] /\ startNow[g1] = startNow[g2]
           /\ req[g1].hours <= req[g2].hours)
          => \A n \in NamesOf(data[g1]) \cup NamesOf(data[g2]) :
                IsSuffix(EntriesOf(data[g1], n), EntriesOf(data[g2], n))

\* the store holds a later timestamp inserted before an earlier one; a call
\* with the widest range has returned both, earlier first, and at the same
\* now the narrowest range returns the later one only
C14_Witness ==
    \E g \in Requests :
        /\ IsHistorical(g) /\ req[g].hours = MaxHours
        /\ startNow[g] = now /\ seen[g] = Visible(table)
        /\ Len(seen[g]) = 2
        /\ TextLess(seen[g][2].timestamp, seen[g][1].timestamp)
        /\ Len(EntriesOf(data[g], NameA)) = 2
        /\ data[g] = RecentNow(MaxHours)
        /\ Len(EntriesOf(RecentNow(0), NameA)) = 1

\* --------------------------------------------------------------------- C15
\* every row of the batch of the request is committed and the request does
\* not hold db_lock
CommittedAndReleased(r) ==
    /\ Len(RowsOf(Visible(table), r)) = Len(req[r].payload.signals)
    /\ db_lock # r

\* a get_recent_telemetry whose range covers the timestamp of the batch
\* returns an entry of the batch under each of its signal names
CoveringQueryReturns(r) ==
    LET p == req[r].payload
        t == ParseTime(p.timestamp)
    IN  \A h \in 0..MaxHours :
            (t # NoTime /\ now - h <= t /\ t <= now) =>
                \A i \in 1..Len(p.signals) :
                    \E k \in 1..Len(EntriesOf(RecentNow(h), p.signals[i].name)) :
                        EntriesOf(RecentNow(h), p.signals[i].name)[k].conn = r

\* C15: an ingest call commits its rows and releases db_lock, then emits
\* telemetry_update, then answers 200: once the update of a batch is emitted
\* its rows are committed and a query with a covering range returns them
\* all, and a 200 answer implies the commit and the emission.
C15_CommitThenEmitThenAnswer ==
    \A r \in Requests : IsPost(r) =>
        /\ pc[r] = "emit" => CommittedAndReleased(r) /\ UpdatesOf(r) = {}
        /\ UpdatesOf(r) # {} => CommittedAndReleased(r) /\ CoveringQueryReturns(r)
        /\ pc[r] = "return" => UpdatesOf(r) # {} /\ code[r] = 0
        /\ code[r] = 200 => UpdatesOf(r) # {} /\ CommittedAndReleased(r)

\* --------------------------------------------------------------------- C16
\* store_telemetry raised in the request, which has been answered
StoreFailed(r) == IsPost(r) /\ Answered(r) /\ attempts[r] = 1 /\ code[r] = 500

\* C16: a batch is persisted entirely or not at all: no row of a request
\* whose store_telemetry failed at an insert is ever committed, and none is
\* left once its connection is closed; only batches that reached their
\* commit are in the store; no get_recent_telemetry and no get_signals has
\* found or returned a row of the failed batch.
C16_FailedBatchLeavesNothing ==
    /\ \A r \in Requests : StoreFailed(r) =>
          /\ RowsOf(Visible(table), r) = <<>>
          /\ r \notin lingering => RowsOf(table, r) = <<>>
          /\ \A g \in Requests :
                /\ \A i \in 1..Len(seen[g]) : seen[g][i].conn # r
                /\ \A d \in 1..Len(data[g]) :
                      \A k \in 1..Len(data[g][d].entries) :
                          data[g][d].entries[k].conn # r
    /\ \A i \in 1..Len(table) : table[i].committed => Stored(table[i].conn)
    /\ \A g \in Requests : IsSignalList(g) =>
          \A k \in 1..Len(names[g]) :
              \E i \in 1..Len(seen[g]) :
                  /\ seen[g][i].signal_name = names[g][k]
                  /\ Stored(seen[g][i].conn)

\* the second insert of a batch failed after the first was made; a read that
\* arrived after that request has been answered, and the store is empty
C16_Witness ==
    \E r, g \in Requests :
        /\ StoreFailed(r) /\ req[r].payload.signals = NullSecond
        /\ r < g /\ Answered(g) /\ req[g].kind \in {"telemetry", "signals"}
        /\ data[g] = <<>> /\ names[g] = <<>>
        /\ r \notin lingering /\ table = <<>>

\* --------------------------------------------------------------------- C17
\* the entries of a response that were made of rows of request r
EntriesFrom(d, r) ==
    UNION {{<<i, k>> : k \in {j \in 1..Len(d[i].entries) :
                                  d[i].entries[j].conn = r}} :
           i \in 1..Len(d)}

\* C17: no read observes a partial batch: the query of a
\* get_recent_telemetry or a get_signals finds all rows of a batch or none;
\* a historical response holds an entry for every row of a batch or for
\* none, and a list of signals holds every name of a batch it found.
C17_ReadsSeeWholeBatches ==
    \A g, r \in Requests : (Answered(g) /\ IsPost(r)) =>
        LET sigs == req[r].payload.signals
            found == Len(RowsOf(seen[g], r))
        IN  /\ found \in {0, Len(sigs)}
            /\ IsHistorical(g) =>
                  Cardinality(EntriesFrom(data[g], r)) \in {0, Len(sigs)}
            /\ (IsSignalList(g) /\ found > 0) =>
                  \A i \in 1..Len(sigs) :
                      \E k \in 1..Len(names[g]) : names[g][k] = sigs[i].name

\* a read ran between the commit and the emit of an ingest call and found
\* both rows of its batch
C17_Witness ==
    \E g, r \in Requests :
        /\ IsPost(r) /\ pc[r] = "emit" /\ Len(req[r].payload.signals) = 2
        /\ Answered(g) /\ req[g].kind \in {"telemetry", "signals"}
        /\ Len(RowsOf(seen[g], r)) = 2

\* --------------------------------------------------------------------- C18
\* the request is inside a with db_lock block
InCriticalSection(r) == pc[r] \in {"insert", "query"}

\* the request waits at a with db_lock
WaitsForLock(r) == pc[r] \in {"store_lock", "read_lock"}

\* C18: db_lock is held by at most one request, and by a request exactly
\* while it is inside its with block, so it is released on every path out
\* of store_telemetry, get_recent_telemetry and get_signals, the raising one
\* included.  A request stops waiting for db_lock only by acquiring it, and
\* an answer is final; so, under fair scheduling, that again and again no
\* request waits and again and again no request is unanswered says that
\* every request that waits for db_lock acquires it and every request
\* that arrived is answered.
C18_LockReleasedEveryRequestAnswered ==
    /\ [](/\ Cardinality({r \in Requests : InCriticalSection(r)}) <= 1
          /\ \A r \in Requests : InCriticalSection(r) <=> db_lock = r
          /\ \A r \in Requests : Answered(r) => code[r] # 0)
    /\ [][\A r \in Requests :
             /\ (WaitsForLock(r) /\ pc'[r] # pc[r]) => db_lock' = r
             /\ Answered(r) => pc'[r] = pc[r] /\ code'[r] = code[r]]_vars
    /\ []<>(\A r \in Requests : ~WaitsForLock(r))
    /\ []<>(\A r \in Requests : pc[r] = "idle" \/ Answered(r))

\* an INSERT of one request raised, and a request that took db_lock after
\* that was answered; the lock is free
C18_Witness ==
    \E r, q \in Requests :
        /\ IsPost(r) /\ error[r] = NotNullFailed
        /\ IsPost(q) /\ error[q] = DatabaseIsLocked /\ Answered(q)
        /\ db_lock = Free

\* --------------------------------------------------------------------- C19
\* the send of the iteration failed: an exception or a response that is not
\* 200, and the producer is about to sleep
SendFailed ==
    /\ producer.pc = "sleep" /\ producer.posts = 1
    /\ producer.last # Response(200)

\* the producer is at the requests.post of a new iteration
AboutToPost == producer.pc = "post" /\ producer.posts = 0

\* C19: the producer loop never stops because of a failed send: after a
\* ConnectionError, another exception or a response that is not 200 it
\* sleeps EMIT_INTERVAL, then comes to the next requests.post and makes it;
\* an iteration makes at most one POST attempt.
C19_ProducerRetriesAfterFailure ==
    /\ [](producer.pc \in {"try", "post", "sleep"} /\ producer.posts <= 1)
    /\ [][producer.pc = "sleep" =>
             producer'.pc = "try" /\ producer'.slept = EMIT_INTERVAL]_producer
    /\ SendFailed ~> (AboutToPost /\ producer.slept = EMIT_INTERVAL)
    /\ AboutToPost ~> (producer.posts = 1)

\* after a ConnectionError the producer has slept and is at the
\* requests.post of the next iteration
C19_Witness ==
    /\ AboutToPost
    /\ producer.last = ConnectionError
    /\ producer.slept = EMIT_INTERVAL

====
